---- MODULE Spec2Model ----
(***************************************************************************)
(* PythonForge/psrp_server/_server.py: the out-of-process PSRP server.     *)
(*                                                                         *)
(* Threads: the transport read loop (OutOfProcTransport.run), the runspace *)
(* worker (RunspaceThread.run), one pipeline worker per pipeline           *)
(* (PipelineThread.run) and one script subthread per pipeline              *)
(* (PipelineThread._exec).  The psrpcore codec is an external library: the *)
(* model keeps of it the pool state, the pipeline states, the call-id      *)
(* counter and whether output is pending (data_to_send() returns a payload *)
(* exactly when some is, and takes it).                                    *)
(***************************************************************************)
EXTENDS Integers, Sequences, FiniteSets, TLC

\* ---------------------------------------------------------------- bounds
NumPipes    == 1      \* pipeline GUIDs the client uses: 1..NumPipes
MaxPackets  == 3      \* inbound packets the client sends
MaxQueue    == 2      \* events waiting in one worker queue
MaxInput    == 2      \* PipelineInput objects per pipeline
MaxCalls    == 1      \* host calls (call-ids) minted by the codec
MaxChunks   == 3      \* read chunks of the byte stream (SpecRead)
MaxChunkLen == 3      \* bytes per read chunk (SpecRead)

ZeroGuid == 0         \* uuid.UUID(int=0): addresses the runspace pool
Pipes    == 1..NumPipes
Guids    == {ZeroGuid} \cup Pipes

NoVal    == "NoVal"
NoScope  == -1                         \* a call-id not minted yet
Answered == -2                         \* a call-id whose response was sent
NoHolder == 0                          \* a host waiter lock nobody holds
NoThread == <<"none", 0>>              \* the write lock when nobody holds it
NoWrite  == [kind |-> "none", guid |-> 0, phase |-> "none"]
NoPkt    == [tag |-> "none", guid |-> 0]
Ev(t, c, v, n) == [type |-> t, ci |-> c, val |-> v, noInput |-> n]
Sentinel == Ev("None", 0, "", FALSE)   \* event_queue.put(None)
NoEvent  == Ev("none", 0, "", FALSE)

Values     == {"res", "err"}           \* a host result, an ErrorRecord
CallIds    == 1..MaxCalls

\* threads
R     == <<"R", 0>>                    \* OutOfProcTransport.run
RS    == <<"RS", 0>>                   \* RunspaceThread.run
PW(g) == <<"PW", g>>                   \* PipelineThread.run
SW(g) == <<"SW", g>>                   \* PipelineThread._exec
Threads == {R, RS} \cup {PW(g) : g \in Pipes} \cup {SW(g) : g \in Pipes}

VARIABLES
  \* transport
  rpc,        \* position of the read loop
  pkt,        \* the packet being processed (tag, guid)
  acks,       \* acks written while processing pkt
  npk,        \* packets read so far
  pipelines,  \* keys of OutOfProcTransport.pipelines
  wlock,      \* holder of OutOfProcTransport._write_lock
  wr,         \* per thread: the packet it is writing in _write
  \* codec (psrpcore)
  poolState, pending, pstate, useRs, nextCi, callScope,
  \* runspace worker and pipeline workers
  rspc, wpc, evq, wev, hres, hwlock,
  pinput, pcomplete, iterHeld,
  \* script subthreads
  spc, sidx, sci, hscope,
  \* history
  used, created, cmdAcked, closedZero, yielded,
  taken,      \* history: the threads whose payload from data_to_send() is not
              \* written yet, in the order in which they took it
  \* the read loop's framing (SpecRead)
  stream,     \* history: the bytes conn.read has returned so far
  nchunks,    \* the number of reads that returned data
  buffer,     \* b"".join(buffer) in run
  processed,  \* the raw_element values handed to _process, in order
  \* the module-level functions (SpecFunc)
  args,       \* the arguments of the last call
  ret,        \* what the last call returned
  prev        \* the arguments and the result of the call of get_pipe_name before

vars == <<rpc, pkt, acks, npk, pipelines, wlock, wr,
          poolState, pending, pstate, useRs, nextCi, callScope,
          rspc, wpc, evq, wev, hres, hwlock, pinput, pcomplete, iterHeld,
          spc, sidx, sci, hscope,
          used, created, cmdAcked, closedZero, yielded, taken,
          stream, nchunks, buffer, processed, args, ret, prev>>

transportVars == <<rpc, pkt, acks, npk, pipelines>>
codecVars     == <<poolState, pending, pstate, useRs, nextCi, callScope>>
workerVars    == <<rspc, wpc, evq, wev, hres, hwlock, pinput, pcomplete, iterHeld>>
scriptVars    == <<spc, sidx, sci, hscope>>
histVars      == <<used, created, cmdAcked, closedZero, yielded>>
framingVars   == <<stream, nchunks, buffer, processed>>
funcVars      == <<args, ret, prev>>
readVars      == <<framingVars, funcVars>>

Idle(t) == wr[t] = NoWrite

\* ------------------------------------------------------------------ Init
InitMain ==
  /\ rpc = "read" /\ pkt = NoPkt /\ acks = <<>> /\ npk = 0
  /\ pipelines = {}
  /\ wlock = NoThread
  /\ wr = [t \in Threads |-> NoWrite]
  /\ poolState = "BeforeOpen"
  /\ pending = FALSE
  /\ pstate = [g \in Pipes |-> "NotStarted"]
  /\ useRs = [g \in Pipes |-> FALSE]
  /\ nextCi = 1
  /\ callScope = [c \in CallIds |-> NoScope]
  /\ rspc = "get"
  /\ wpc = [g \in Pipes |-> "none"]
  /\ evq = [s \in Guids |-> <<>>]
  /\ wev = [g \in Pipes |-> NoEvent]
  /\ hres = [s \in Guids |-> [c \in CallIds |-> NoVal]]
  /\ hwlock = [s \in Guids |-> NoHolder]
  /\ pinput = [g \in Pipes |-> <<>>]
  /\ pcomplete = [g \in Pipes |-> TRUE]
  /\ iterHeld = [g \in Pipes |-> FALSE]
  /\ spc = [g \in Pipes |-> "none"]
  /\ sidx = [g \in Pipes |-> 0]
  /\ sci = [g \in Pipes |-> 0]
  /\ hscope = [g \in Pipes |-> g]
  /\ used = {} /\ created = {} /\ cmdAcked = {} /\ closedZero = FALSE
  /\ yielded = [g \in Pipes |-> <<>>]
  /\ taken = <<>>

InitRead == stream = <<>> /\ nchunks = 0 /\ buffer = <<>> /\ processed = <<>>

NoCall == [fn |-> "none"]
InitFunc == args = NoCall /\ ret = <<>> /\ prev = <<NoCall, <<>>>>

Init == InitMain /\ InitRead /\ InitFunc

\* ------------------------------------------------------- transport writes
Req(k, g) == [kind |-> k, guid |-> g, phase |-> "lock"]

\* close_ack, command_ack, data_ack, signal_ack: the ack written for a packet
\* of kind tag and GUID g
AckKind(tag) ==
  CASE tag = "Close" -> "CloseAck"
    [] tag = "Command" -> "CommandAck"
    [] tag = "Data" -> "DataAck"
    [] tag = "Signal" -> "SignalAck"

\* variants: every ack is a DataAck; no ack is written
AckAsDataAck(tag, g) == Req("DataAck", g)
AckNothing(tag, g) == NoWrite
Ack(tag, g) == Req(AckKind(tag), g)

Sending == {t \in Threads : wr[t].phase = "send"}

\* variant: _write takes no lock
LockNotTaken == TRUE
\* threading.Lock.acquire: the lock is free
LockFree == wlock = NoThread

\* _write, `with self._write_lock:` entered
WriteLock(t) ==
  /\ wr[t].phase = "lock"
  /\ LockFree
  /\ wlock' = t
  /\ wr' = [wr EXCEPT ![t].phase = "send"]
  /\ taken' = IF wr[t].kind = "Data" THEN SelectSeq(taken, LAMBDA u : u # t) ELSE taken
  /\ UNCHANGED <<transportVars, codecVars, workerVars, scriptVars, histVars, readVars>>

\* _write, self._conn.send(data) returns and the lock is released
WriteSend(t) ==
  /\ wr[t].phase = "send"
  /\ wlock' = NoThread
  /\ wr' = [wr EXCEPT ![t] = NoWrite]
  \* the read loop is back at conn.read once its last write is done
  /\ IF t = R /\ rpc = "read"
       THEN pkt' = NoPkt /\ acks' = <<>>
       ELSE /\ pkt' = pkt
            /\ acks' = IF t = R /\ wr[t].kind # "Data"
                         THEN Append(acks, [kind |-> wr[t].kind, guid |-> wr[t].guid])
                         ELSE acks
  /\ cmdAcked' = IF wr[t].kind = "CommandAck" THEN cmdAcked \cup {wr[t].guid}
                 ELSE cmdAcked
  /\ closedZero' = (closedZero \/ (wr[t].kind = "CloseAck" /\ wr[t].guid = ZeroGuid))
  /\ UNCHANGED <<rpc, npk, pipelines, codecVars, workerVars, scriptVars,
                 used, created, yielded, readVars, taken>>

\* data_to_send() followed by `if data: self.transport.data(data)`: the
\* payload is taken from the codec now and written later
TakeData(t) ==
  /\ pending' = FALSE
  /\ wr' = IF pending THEN [wr EXCEPT ![t] = Req("Data", ZeroGuid)] ELSE wr
  /\ taken' = IF pending THEN Append(taken, t) ELSE taken

\* `_ = self.runspace.data_to_send()`: the payload is taken and discarded
DiscardData == pending' = FALSE

\* ------------------------------------------------------------- read loop
CanRead == rpc = "read" /\ Idle(R) /\ npk < MaxPackets

\* GUIDs are interchangeable: the client takes them in order, and names the
\* GUID g only once every GUID below g has had its Command
InOrder(g) == \A h \in Pipes : h < g => h \in used

\* run: conn.read returns a line and _process parses it; `returns` when
\* _process returns within the step
Read(tag, g, returns) ==
  /\ CanRead
  /\ InOrder(g)
  /\ pkt' = IF returns THEN NoPkt ELSE [tag |-> tag, guid |-> g]
  /\ acks' = <<>>
  /\ npk' = npk + 1

\* PipelineThread.close
close(g) ==
  /\ pstate' = [pstate EXCEPT ![g] = IF @ = "Running" THEN "Stopping" ELSE @]
  /\ DiscardData
  /\ evq' = [evq EXCEPT ![g] = Append(@, Sentinel)]

\* PipelineThread.stop
stop(g) ==
  /\ pstate' = [pstate EXCEPT ![g] = "Stopping"]
  /\ DiscardData

\* variant: the pipeline is looked up and stays in the table
PopKeeps(g) == pipelines
\* self.pipelines.pop(pipeline_id): the table without g
Pop(g) == pipelines \ {g}

\* _process, tag Close, pipeline GUID: _process_close up to pipeline.join()
ProcessClose(g) ==
  /\ g \in Pipes
  /\ Read("Close", g, FALSE)
  /\ IF g \in pipelines
       THEN /\ pipelines' = Pop(g)
            /\ close(g)
            /\ rpc' = "close_join"
       ELSE /\ rpc' = "err"                       \* KeyError
            /\ UNCHANGED <<pipelines, pstate, pending, evq>>
  /\ UNCHANGED <<wlock, wr, poolState, useRs, nextCi, callScope,
                 rspc, wpc, wev, hres, hwlock, pinput, pcomplete, iterHeld,
                 scriptVars, used, created, cmdAcked, closedZero, yielded, readVars, taken>>

\* variant: close_ack without the join
JoinedAtOnce(g) == TRUE
\* Thread.join() on the pipeline worker of g returns
Joined(g) == wpc[g] = "done"

\* Thread.join() on the runspace worker returns
RsJoined == rspc = "done"

\* _process_close: pipeline.join() returns, then close_ack(pipeline_id)
CloseJoin ==
  /\ rpc = "close_join"
  /\ Joined(pkt.guid)
  /\ wr' = [wr EXCEPT ![R] = Ack("Close", pkt.guid)]
  /\ rpc' = "read"
  /\ UNCHANGED <<pkt, acks, npk, pipelines, wlock, codecVars, workerVars,
                 scriptVars, histVars, readVars, taken>>

\* _process, tag Close, all-zero GUID: RunspaceThread.close, pool.close()
ProcessCloseZero ==
  /\ Read("Close", ZeroGuid, FALSE)
  /\ poolState' = IF poolState \in {"Closed", "Broken"} THEN poolState ELSE "Closed"
  /\ pending' = (pending \/ poolState \notin {"Closed", "Broken"})
  /\ rpc' = "rs_close"
  /\ UNCHANGED <<pipelines, wlock, wr, pstate, useRs, nextCi, callScope,
                 workerVars, scriptVars, histVars, readVars, taken>>

\* RunspaceThread.close: data_to_send() and transport.data(data)
RsCloseSend ==
  /\ rpc = "rs_close"
  /\ TakeData(R)
  /\ rpc' = "rs_put"
  /\ UNCHANGED <<pkt, acks, npk, pipelines, wlock, poolState, pstate, useRs,
                 nextCi, callScope, workerVars, scriptVars, histVars, readVars>>

\* RunspaceThread.close: self.event_queue.put(None)
RsClosePut ==
  /\ rpc = "rs_put" /\ Idle(R)
  /\ evq' = [evq EXCEPT ![ZeroGuid] = Append(@, Sentinel)]
  /\ rpc' = "rs_join"
  /\ UNCHANGED <<pkt, acks, npk, pipelines, wlock, wr, codecVars,
                 rspc, wpc, wev, hres, hwlock, pinput, pcomplete, iterHeld,
                 scriptVars, histVars, readVars, taken>>

\* Where _process goes after _process_close(None): `if not ps_guid: return`
\* returns from _process into the `while True` of run
AfterCloseZero == "read"

\* _process_close: self.runspace.join() returns, then close_ack(None)
RsJoin ==
  /\ rpc = "rs_join"
  /\ RsJoined
  /\ wr' = [wr EXCEPT ![R] = Ack("Close", ZeroGuid)]
  /\ rpc' = AfterCloseZero
  /\ UNCHANGED <<pkt, acks, npk, pipelines, wlock, codecVars, workerVars,
                 scriptVars, histVars, readVars, taken>>

\* Thread.start() raises RuntimeError on a thread that was started
StartRaises(g) == g \in pipelines

\* variant: the all-zero GUID is taken for a pipeline as well
NamesPipelineAlways(g) == TRUE
\* _process turns the all-zero PSGuid into None, and _process_command acts
\* under `if pipeline_id:`
NamesPipeline(g) == g # ZeroGuid

\* _process, tag Command
ProcessCommand(g) ==
  /\ g \in Guids
  /\ g \in Pipes => (g \notin used \/ g \in pipelines)  \* a closed GUID is not reused
  /\ Read("Command", g, g = ZeroGuid)
  /\ IF ~NamesPipeline(g)
       THEN /\ rpc' = "read"
            /\ UNCHANGED <<pipelines, wpc, used, wr>>
       ELSE IF StartRaises(g)
         THEN /\ rpc' = "err"                     \* RuntimeError
              /\ UNCHANGED <<pipelines, wpc, used, wr>>
         ELSE /\ pipelines' = pipelines \cup {g}
              /\ wpc' = [wpc EXCEPT ![g] = "get"]
              /\ used' = used \cup {g}
              /\ wr' = [wr EXCEPT ![R] = Ack("Command", g)]
              /\ rpc' = "read"
  /\ UNCHANGED <<wlock, codecVars, rspc, evq, wev, hres, hwlock, pinput,
                 pcomplete, iterHeld, scriptVars, created, cmdAcked, closedZero, yielded, readVars, taken>>

\* ---- events next_event() can produce for a Data packet, by its PSGuid
\* pool scope: the opening handshake, a RunspacePoolHostResponse
PoolEvents ==
  {<<>>, <<Ev("Open", 0, "", FALSE)>>}
    \cup {<<Ev("HostResponse", c, v, FALSE)>> :
            c \in {x \in CallIds : callScope[x] = ZeroGuid}, v \in Values}

InputsSent(g) ==
  Len(pinput[g]) + Cardinality({i \in 1..Len(evq[g]) : evq[g][i].type = "Input"})
    + (IF wev[g].type = "Input" THEN 1 ELSE 0)

\* pipeline scope: CreatePipeline (once), PipelineInput (the k-th carries the
\* object k), EndOfPipelineInput,
\* a PipelineHostResponse, and PipelineInput followed by EndOfPipelineInput
PipeEvents(g) ==
  {<<>>, <<Ev("End", 0, "", FALSE)>>}
    \cup (IF g \in created THEN {}
          ELSE {<<Ev("Create", 0, h, n)>> : h \in {"pipeline", "runspace"},
                                             n \in BOOLEAN})
    \cup (IF InputsSent(g) < MaxInput
            THEN {<<Ev("Input", InputsSent(g) + 1, "", FALSE)>>,
                  <<Ev("Input", InputsSent(g) + 1, "", FALSE), Ev("End", 0, "", FALSE)>>}
            ELSE {})
    \cup (IF InputsSent(g) + 1 < MaxInput
            THEN {<<Ev("Input", InputsSent(g) + 1, "", FALSE),
                    Ev("Input", InputsSent(g) + 2, "", FALSE)>>}
            ELSE {})
    \cup {<<Ev("HostResponse", c, v, FALSE)>> :
            c \in {x \in CallIds : callScope[x] = g}, v \in Values}

DataEvents(g) == IF g = ZeroGuid THEN PoolEvents ELSE PipeEvents(g)

HasType(evs, t) == \E i \in 1..Len(evs) : evs[i].type = t

\* variant: every event goes to the runspace worker
RouteToRunspace(g) == ZeroGuid
\* the worker queue _process_data puts the events of a packet on
Route(g) == g

\* _process, tag Data: _process_data
ProcessData(g, evs) ==
  /\ g \in Guids
  /\ evs \in DataEvents(g)
  /\ Len(evq[Route(g)]) + Len(evs) <= MaxQueue
  /\ Read("Data", g, FALSE)
  \* receive_data and next_event: what the codec does with the messages
  /\ poolState' = IF HasType(evs, "Open") /\ poolState = "BeforeOpen"
                    THEN "Opened" ELSE poolState
  /\ pending' = (pending \/ (HasType(evs, "Open") /\ poolState = "BeforeOpen"))
  /\ callScope' = [c \in CallIds |->
                     IF \E i \in 1..Len(evs) :
                          evs[i].type = "HostResponse" /\ evs[i].ci = c
                       THEN Answered ELSE callScope[c]]
  /\ IF g \in Pipes /\ g \notin pipelines /\ evs # <<>>
       THEN /\ rpc' = "err"                       \* KeyError
            /\ UNCHANGED <<evq, wr, useRs, created>>
       ELSE /\ evq' = [evq EXCEPT ![Route(g)] = @ \o evs]
            /\ useRs' = IF HasType(evs, "Create")
                          THEN [useRs EXCEPT ![g] = (evs[1].val = "runspace")]
                          ELSE useRs
            /\ created' = IF HasType(evs, "Create") THEN created \cup {g} ELSE created
            /\ wr' = [wr EXCEPT ![R] = Ack("Data", g)]
            /\ rpc' = "read"
  /\ UNCHANGED <<pipelines, wlock, pstate, nextCi,
                 rspc, wpc, wev, hres, hwlock, pinput, pcomplete, iterHeld,
                 scriptVars, used, cmdAcked, closedZero, yielded, readVars, taken>>

\* _process, tag Data, the body is not valid base64 or the codec rejects it
ProcessDataBad(g) ==
  /\ g \in Guids
  /\ Read("Data", g, FALSE)
  /\ rpc' = "err"
  /\ UNCHANGED <<pipelines, wlock, wr, codecVars, workerVars, scriptVars,
                 histVars, readVars, taken>>

\* _process, tag Signal: _process_signal
ProcessSignal(g) ==
  /\ g \in Guids
  /\ Read("Signal", g, g = ZeroGuid)
  /\ IF g = ZeroGuid
       THEN /\ rpc' = "read"
            /\ UNCHANGED <<pstate, pending, wr>>
       ELSE IF g \notin pipelines
         THEN /\ rpc' = "err"                     \* KeyError
              /\ UNCHANGED <<pstate, pending, wr>>
         ELSE /\ stop(g)
              /\ wr' = [wr EXCEPT ![R] = Ack("Signal", g)]
              /\ rpc' = "read"
  /\ UNCHANGED <<pipelines, wlock, poolState, useRs, nextCi, callScope,
                 workerVars, scriptVars, used, created, cmdAcked, closedZero,
                 yielded, readVars, taken>>

\* _process: uuid.UUID(element.attrib["PSGuid"]) raises (the attribute is
\* missing or is no GUID), or ElementTree.fromstring raises
ProcessMalformed ==
  /\ Read("Malformed", ZeroGuid, FALSE)
  /\ rpc' = "err"
  /\ UNCHANGED <<pipelines, wlock, wr, codecVars, workerVars, scriptVars,
                 histVars, readVars, taken>>

\* _process: a tag that is none of Close, Command, Data, Signal matches no
\* branch
ProcessOther(g) ==
  /\ g \in Guids
  /\ Read("Other", g, TRUE)
  /\ rpc' = "read"
  /\ UNCHANGED <<pipelines, wlock, wr, codecVars, workerVars, scriptVars,
                 histVars, readVars, taken>>

\* run: conn.read returns b"" (the peer closed the input), `break`
InputClosed ==
  /\ rpc = "read" /\ Idle(R)
  /\ rpc' = "stopped"
  /\ UNCHANGED <<pkt, acks, npk, pipelines, wlock, wr, codecVars, workerVars,
                 scriptVars, histVars, readVars, taken>>

\* variant: an Opened pool is not set broken
BreakStatesBrokenOnly == {"Broken"}
\* the pool states in which run's `except Exception` sets the pool broken
BreakStates == {"Opened", "Broken"}

\* run: `except Exception`, set_broken(err) or `raise`
HandleError ==
  /\ rpc = "err"
  /\ IF poolState \in BreakStates
       THEN /\ poolState' = "Broken"
            /\ pending' = TRUE
            /\ rpc' = "err_sd"
       ELSE /\ rpc' = "crashed"
            /\ UNCHANGED <<poolState, pending>>
  /\ pkt' = NoPkt
  /\ UNCHANGED <<acks, npk, pipelines, wlock, wr, pstate, useRs, nextCi,
                 callScope, workerVars, scriptVars, histVars, readVars, taken>>

\* run: resp = data_to_send(); if resp: self.data(resp); break
ErrorSend ==
  /\ rpc = "err_sd"
  /\ TakeData(R)
  /\ rpc' = "stopped"
  /\ UNCHANGED <<pkt, acks, npk, pipelines, wlock, poolState, pstate, useRs,
                 nextCi, callScope, workerVars, scriptVars, histVars, readVars>>

ReadLoop ==
  \/ \E g \in Pipes : ProcessClose(g)
  \/ CloseJoin
  \/ ProcessCloseZero
  \/ RsCloseSend
  \/ RsClosePut
  \/ RsJoin
  \/ \E g \in Guids : ProcessCommand(g)
  \/ CanRead /\ \E g \in Guids : \E evs \in DataEvents(g) : ProcessData(g, evs)
  \/ \E g \in Guids : ProcessDataBad(g)
  \/ \E g \in Guids : ProcessSignal(g)
  \/ ProcessMalformed
  \/ \E g \in Guids : ProcessOther(g)
  \/ InputClosed
  \/ HandleError
  \/ ErrorSend

\* ------------------------------------------------------ condition variables
\* notify_all on the host waiter of scope s: every script thread waiting on it
NotifyHost(s) ==
  [g \in Pipes |-> IF spc[g] = "hwait" /\ hscope[g] = s THEN "hwoken" ELSE spc[g]]

\* notify_all on add_condition of pipeline g
NotifyInput(g) ==
  [spc EXCEPT ![g] = IF @ = "it_wait" THEN "it_woken" ELSE @]

\* ------------------------------------------------------------ worker queues
\* variant: get takes the event put last
NewestEvent(q) == q[Len(q)]
\* queue.Queue.get on a worker's event_queue: the event put first
NextEvent(q) == Head(q)

\* ---------------------------------------------------------- runspace worker
\* RunspaceThread.run: event = self.event_queue.get(); a host response is
\* stored in _host_result
RsGet ==
  /\ rspc = "get" /\ Idle(RS)
  /\ evq[ZeroGuid] # <<>>
  /\ LET e == NextEvent(evq[ZeroGuid]) IN
       /\ evq' = [evq EXCEPT ![ZeroGuid] = Tail(@)]
       /\ hres' = IF e.type = "HostResponse"
                    THEN [hres EXCEPT ![ZeroGuid][e.ci] = e.val] ELSE hres
       /\ rspc' = CASE e.type = "None" -> "notify_end"
                    [] e.type = "HostResponse" -> "notify"
                    [] OTHER -> "sd"
  /\ UNCHANGED <<transportVars, wlock, wr, codecVars, wpc, wev, hwlock, pinput,
                 pcomplete, iterHeld, scriptVars, histVars, readVars, taken>>

\* RunspaceThread.run: with self._host_waiter: notify_all()
RsNotify ==
  /\ rspc \in {"notify", "notify_end"}
  /\ hwlock[ZeroGuid] = NoHolder
  /\ spc' = NotifyHost(ZeroGuid)
  /\ rspc' = IF rspc = "notify_end" THEN "done" ELSE "sd"
  /\ UNCHANGED <<transportVars, wlock, wr, codecVars, wpc, evq, wev, hres, hwlock,
                 pinput, pcomplete, iterHeld, sidx, sci, hscope, histVars,
                 readVars, taken>>

\* RunspaceThread.run: data = data_to_send(); if data: transport.data(data)
RsSend ==
  /\ rspc = "sd"
  /\ TakeData(RS)
  /\ rspc' = "get"
  /\ UNCHANGED <<transportVars, wlock, poolState, pstate, useRs, nextCi, callScope,
                 wpc, evq, wev, hres, hwlock, pinput, pcomplete, iterHeld,
                 scriptVars, histVars, readVars>>

RunspaceWorker == RsGet \/ RsNotify \/ RsSend

\* ---------------------------------------------------------- pipeline worker
\* PipelineThread.run: event = self.event_queue.get(), and what the branch
\* does before it takes a lock
WGet(g) ==
  /\ wpc[g] = "get" /\ Idle(PW(g))
  /\ evq[g] # <<>>
  /\ LET e == NextEvent(evq[g]) IN
       /\ evq' = [evq EXCEPT ![g] = Tail(@)]
       /\ pcomplete' = CASE e.type \in {"None", "End"} -> [pcomplete EXCEPT ![g] = TRUE]
                         [] e.type = "Create" -> [pcomplete EXCEPT ![g] = e.noInput]
                         [] OTHER -> pcomplete
       \* start_pwsh_pipeline: self._worker.start()
       /\ spc' = IF e.type = "Create" THEN [spc EXCEPT ![g] = "start"] ELSE spc
       /\ hres' = IF e.type = "HostResponse"
                    THEN [hres EXCEPT ![g][e.ci] = e.val] ELSE hres
       /\ wev' = [wev EXCEPT ![g] = IF e.type = "Input" THEN e ELSE NoEvent]
       /\ wpc' = [wpc EXCEPT ![g] =
                    CASE e.type = "None" -> "cond_end"
                      [] e.type = "Create" -> "sd"
                      [] e.type = "Input" -> "cond_in"
                      [] e.type = "End" -> "cond"
                      [] e.type = "HostResponse" -> "notify"
                      [] OTHER -> "sd"]
  /\ UNCHANGED <<transportVars, wlock, wr, codecVars, rspc, hwlock, pinput,
                 iterHeld, sidx, sci, hscope, histVars, readVars, taken>>

\* `with add_condition:` can be entered: the script thread does not hold it
CondFree(g) == ~iterHeld[g]

\* PipelineThread.run: with add_condition: (append and) notify_all()
WCond(g) ==
  /\ wpc[g] \in {"cond_in", "cond", "cond_end"}
  /\ CondFree(g)
  /\ pinput' = IF wpc[g] = "cond_in"
                 THEN [pinput EXCEPT ![g] = Append(@, wev[g].ci)] ELSE pinput
  /\ wev' = [wev EXCEPT ![g] = NoEvent]
  /\ spc' = NotifyInput(g)
  /\ wpc' = [wpc EXCEPT ![g] = IF @ = "cond_end" THEN "notify_end" ELSE "sd"]
  /\ UNCHANGED <<transportVars, wlock, wr, codecVars, rspc, evq, hres, hwlock,
                 pcomplete, iterHeld, sidx, sci, hscope, histVars, readVars, taken>>

\* the host waiter the pipeline worker notifies
WakeScope(g) == g

\* PipelineThread.run: with self._host_waiter: notify_all()
WNotify(g) ==
  /\ wpc[g] \in {"notify", "notify_end"}
  /\ hwlock[WakeScope(g)] = NoHolder
  /\ spc' = NotifyHost(WakeScope(g))
  /\ wpc' = [wpc EXCEPT ![g] = IF @ = "notify_end" THEN "done" ELSE "sd"]
  /\ UNCHANGED <<transportVars, wlock, wr, codecVars, rspc, evq, wev, hres, hwlock,
                 pinput, pcomplete, iterHeld, sidx, sci, hscope, histVars,
                 readVars, taken>>

\* PipelineThread.run: self._send_data()
WSend(g) ==
  /\ wpc[g] = "sd"
  /\ TakeData(PW(g))
  /\ wpc' = [wpc EXCEPT ![g] = "get"]
  /\ UNCHANGED <<transportVars, wlock, poolState, pstate, useRs, nextCi, callScope,
                 rspc, evq, wev, hres, hwlock, pinput, pcomplete, iterHeld,
                 scriptVars, histVars, readVars>>

PipelineWorker(g) == WGet(g) \/ WCond(g) \/ WNotify(g) \/ WSend(g)

\* ----------------------------------------------------------- script thread
Exhausted == -1        \* sidx once pipeline_iter has returned

\* how _exec ends the pipeline: the codec call, then self._send_data()
EndPipeline(g, state) ==
  /\ pstate' = [pstate EXCEPT ![g] = state]
  /\ pending' = TRUE
  /\ spc' = [spc EXCEPT ![g] = "fin_sd"]

\* the host waiter and result map PSHost.__init__ binds
HostScope(g) == IF useRs[g] THEN ZeroGuid ELSE g

\* _exec: self.pipeline.start(); _ = data_to_send(); PSHost(self); exec
\* compiles the script, and a script that does not compile raises
\* SyntaxError before it runs: _change_state(Failed, emit=True)
SStart(g, compiles) ==
  /\ spc[g] = "start"
  /\ hscope' = [hscope EXCEPT ![g] = HostScope(g)]
  /\ IF compiles
       THEN /\ pstate' = [pstate EXCEPT ![g] = "Running"]
            /\ DiscardData
            /\ spc' = [spc EXCEPT ![g] = "run"]
       ELSE EndPipeline(g, "Failed")
  /\ UNCHANGED <<transportVars, wlock, wr, poolState, useRs, nextCi, callScope,
                 workerVars, sidx, sci, used, created, cmdAcked, closedZero,
                 yielded, readVars, taken>>

\* variant: the facade does not look at the pipeline state
FacadeNeverStops(g) == FALSE
\* the state in which the cmdlet facade raises SystemExit
FacadeStops(g) == pstate[g] = "Stopping"

\* PSCmdlet.write_host / write_output / write_error: the state check;
\* sys.exit() is caught in _exec, which calls pipeline.stop()
SWrite(g) ==
  /\ spc[g] = "run" /\ Idle(SW(g))
  /\ IF FacadeStops(g)
       THEN EndPipeline(g, "Stopped")
       ELSE /\ spc' = [spc EXCEPT ![g] = "o_disp"]
            /\ UNCHANGED <<pstate, pending>>
  /\ UNCHANGED <<transportVars, wlock, wr, poolState, useRs, nextCi, callScope,
                 workerVars, sidx, sci, hscope, histVars, readVars, taken>>

\* PSCmdlet.write_*: the call is dispatched to the codec, which queues the
\* record, and self._pipeline._send_data() takes what is pending
SDispatch(g) ==
  /\ spc[g] = "o_disp"
  /\ pending' = FALSE
  /\ wr' = [wr EXCEPT ![SW(g)] = Req("Data", ZeroGuid)]
  /\ taken' = Append(taken, SW(g))
  /\ spc' = [spc EXCEPT ![g] = "run"]
  /\ UNCHANGED <<transportVars, wlock, poolState, pstate, useRs, nextCi,
                 callScope, workerVars, sidx, sci, hscope, histVars, readVars>>

\* _exec: self._send_data() once the script has ended
SSend(g) ==
  /\ spc[g] = "fin_sd"
  /\ TakeData(SW(g))
  /\ spc' = [spc EXCEPT ![g] = "fin"]
  /\ UNCHANGED <<transportVars, wlock, poolState, pstate, useRs, nextCi, callScope,
                 workerVars, sidx, sci, hscope, histVars, readVars>>

\* _exec returns: the thread ends and the suspended generator is finalised
SFinish(g) ==
  /\ spc[g] = "fin" /\ Idle(SW(g))
  /\ spc' = [spc EXCEPT ![g] = "done"]
  /\ iterHeld' = [iterHeld EXCEPT ![g] = FALSE]
  /\ UNCHANGED <<transportVars, wlock, wr, codecVars, rspc, wpc, evq, wev, hres,
                 hwlock, pinput, pcomplete, sidx, sci, hscope, histVars,
                 readVars, taken>>

\* the script asks cmdlet.input for the next object: a generator suspended at
\* `yield value` resumes and leaves `with add_condition:`
SNext(g) ==
  /\ spc[g] = "run" /\ Idle(SW(g))
  /\ sidx[g] # Exhausted
  /\ iterHeld' = [iterHeld EXCEPT ![g] = FALSE]
  /\ spc' = [spc EXCEPT ![g] = "it_acq"]
  /\ UNCHANGED <<transportVars, wlock, wr, codecVars, rspc, wpc, evq, wev, hres,
                 hwlock, pinput, pcomplete, sidx, sci, hscope, histVars,
                 readVars, taken>>

\* whether pipeline_iter keeps add_condition while it is suspended at yield
YieldKeepsLock == TRUE

\* variant: the iterator yields the newest buffered object
NewestInput(g) == pinput[g][Len(pinput[g])]
\* pipeline_iter: value = pipeline_input[idx]
NextInput(g) == pinput[g][sidx[g] + 1]

\* pipeline_iter: one turn of `while True: with add_condition:`
SIter(g) ==
  /\ spc[g] \in {"it_acq", "it_woken"}
  /\ IF sidx[g] < Len(pinput[g])
       THEN /\ yielded' = [yielded EXCEPT ![g] = Append(@, NextInput(g))]
            /\ sidx' = [sidx EXCEPT ![g] = @ + 1]
            /\ iterHeld' = [iterHeld EXCEPT ![g] = YieldKeepsLock]
            /\ spc' = [spc EXCEPT ![g] = "run"]
       ELSE IF pcomplete[g]
         THEN /\ sidx' = [sidx EXCEPT ![g] = Exhausted]
              /\ spc' = [spc EXCEPT ![g] = "run"]
              /\ UNCHANGED <<yielded, iterHeld>>
         ELSE /\ spc' = [spc EXCEPT ![g] = "it_wait"]   \* add_condition.wait()
              /\ UNCHANGED <<yielded, iterHeld, sidx>>
  /\ UNCHANGED <<transportVars, wlock, wr, codecVars, rspc, wpc, evq, wev, hres,
                 hwlock, pinput, pcomplete, sci, hscope,
                 used, created, cmdAcked, closedZero, readVars, taken>>

\* PSHost.prompt_for_credential: the codec mints the call-id
SHostCall(g) ==
  /\ spc[g] = "run" /\ Idle(SW(g))
  /\ nextCi <= MaxCalls
  /\ sci' = [sci EXCEPT ![g] = nextCi]
  /\ nextCi' = nextCi + 1
  /\ callScope' = [callScope EXCEPT ![nextCi] = hscope[g]]
  /\ pending' = TRUE
  /\ spc' = [spc EXCEPT ![g] = "h_lock"]
  /\ UNCHANGED <<transportVars, wlock, wr, poolState, pstate, useRs, workerVars,
                 sidx, hscope, histVars, readVars, taken>>

\* _send_data_with_response: `with self._waiter:` entered and
\* self._pipeline._send_data() called
SHostLock(g) ==
  /\ spc[g] = "h_lock"
  /\ hwlock[hscope[g]] = NoHolder
  /\ hwlock' = [hwlock EXCEPT ![hscope[g]] = g]
  /\ TakeData(SW(g))
  /\ spc' = [spc EXCEPT ![g] = "h_pred"]
  /\ UNCHANGED <<transportVars, wlock, poolState, pstate, useRs, nextCi, callScope,
                 rspc, wpc, evq, wev, hres, pinput, pcomplete, iterHeld,
                 sidx, sci, hscope, histVars, readVars>>

\* Condition.wait() returns: the notified thread takes the lock again
SHostWake(g) ==
  /\ spc[g] = "hwoken"
  /\ hwlock[hscope[g]] = NoHolder
  /\ hwlock' = [hwlock EXCEPT ![hscope[g]] = g]
  /\ spc' = [spc EXCEPT ![g] = "h_pred"]
  /\ UNCHANGED <<transportVars, wlock, wr, codecVars, rspc, wpc, evq, wev, hres,
                 pinput, pcomplete, iterHeld, sidx, sci, hscope, histVars,
                 readVars, taken>>

\* variant: wait_for looks at the pipeline state only
WaitOverOnStateOnly(g) == pstate[g] # "Running"
\* the predicate of wait_for
WaitOver(g) ==
  \/ hres[hscope[g]][sci[g]] # NoVal
  \/ pstate[g] # "Running"

\* what _send_data_with_response returns for a stored value
Returned(v) == IF v = "err" THEN "Exception" ELSE v

\* _send_data_with_response: wait_for checks the predicate holding the lock;
\* when it holds the lock is released and the result is popped
SHostPred(g) ==
  /\ spc[g] = "h_pred" /\ Idle(SW(g))
  /\ hwlock' = [hwlock EXCEPT ![hscope[g]] = NoHolder]
  /\ IF ~WaitOver(g)
       THEN /\ spc' = [spc EXCEPT ![g] = "hwait"]       \* wait()
            /\ UNCHANGED <<hres, pstate, pending>>
       ELSE IF hres[hscope[g]][sci[g]] # NoVal
         THEN /\ hres' = [hres EXCEPT ![hscope[g]][sci[g]] = NoVal]
              /\ IF Returned(hres[hscope[g]][sci[g]]) = "Exception"
                   THEN EndPipeline(g, "Completed")   \* write_error, complete()
                   ELSE /\ spc' = [spc EXCEPT ![g] = "run"]
                        /\ UNCHANGED <<pstate, pending>>
         ELSE /\ EndPipeline(g, "Stopped")            \* sys.exit(), stop()
              /\ UNCHANGED hres
  /\ UNCHANGED <<transportVars, wlock, wr, poolState, useRs, nextCi, callScope,
                 rspc, wpc, evq, wev, pinput, pcomplete, iterHeld, sidx, sci,
                 hscope, histVars, readVars, taken>>

\* _exec: the script returns (complete()) or raises an Exception
\* (write_error, complete())
SEnd(g) ==
  /\ spc[g] = "run" /\ Idle(SW(g))
  /\ EndPipeline(g, "Completed")
  /\ UNCHANGED <<transportVars, wlock, wr, poolState, useRs, nextCi, callScope,
                 workerVars, sidx, sci, hscope, histVars, readVars, taken>>

Script(g) ==
  \/ (\E compiles \in BOOLEAN : SStart(g, compiles)) \/ SWrite(g) \/ SDispatch(g) \/ SSend(g) \/ SFinish(g)
  \/ SNext(g) \/ SIter(g)
  \/ SHostCall(g) \/ SHostLock(g) \/ SHostWake(g) \/ SHostPred(g)
  \/ SEnd(g)

\* ------------------------------------------------------ read loop: framing
NewLine == "\n"        \* b"\n"
Letter  == "x"         \* stands for every byte but the newline
Bytes   == {Letter, NewLine}

\* what conn.read can return before the peer closes: 1..MaxChunkLen bytes
Chunks == UNION {[1..n -> Bytes] : n \in 1..MaxChunkLen}

HasNewLine(data) == \E i \in 1..Len(data) : data[i] = NewLine

\* data.index(b"\n"): the position of the first newline
Index(data) ==
  CHOOSE i \in 1..Len(data) :
    data[i] = NewLine /\ \A j \in 1..(i - 1) : data[j] # NewLine

mainVars == <<transportVars, wlock, wr, codecVars, workerVars, scriptVars, histVars,
              taken>>

\* run: conn.read returns data without a newline: buffer.append(data)
RunAppend(data) ==
  /\ rpc = "read" /\ nchunks < MaxChunks
  /\ ~HasNewLine(data)
  /\ stream' = stream \o data
  /\ nchunks' = nchunks + 1
  /\ buffer' = buffer \o data
  /\ UNCHANGED <<processed, mainVars, funcVars>>

\* run: conn.read returns data with a newline: the buffer and the bytes
\* before the first newline go to _process, the bytes after it are the buffer
RunLine(data) ==
  /\ rpc = "read" /\ nchunks < MaxChunks
  /\ HasNewLine(data)
  /\ stream' = stream \o data
  /\ nchunks' = nchunks + 1
  /\ processed' = Append(processed, buffer \o SubSeq(data, 1, Index(data) - 1))
  /\ buffer' = SubSeq(data, Index(data) + 1, Len(data))
  /\ UNCHANGED <<mainVars, funcVars>>

\* run: conn.read returns b"": break
RunEof ==
  /\ rpc = "read"
  /\ rpc' = "stopped"
  /\ UNCHANGED <<pkt, acks, npk, pipelines, wlock, wr, codecVars, workerVars,
                 scriptVars, histVars, readVars, taken>>

NextRead ==
  \/ \E data \in Chunks : RunAppend(data)
  \/ \E data \in Chunks : RunLine(data)
  \/ RunEof

SpecRead == Init /\ [][NextRead]_vars

\* ------------------------------------------- the module-level functions
MaxPayload == 4                 \* bytes of a payload handed to ps_data_packet
PayloadBytes == {0, 10, 255}    \* byte values of a payload; 10 is the line feed
Payloads == UNION {[1..n -> PayloadBytes] : n \in 0..MaxPayload}
StreamTypes == {"default", "prompt_response"}   \* psrpcore.StreamType
AckElements == {"CloseAck", "CommandAck", "DataAck", "SignalAck"}

\* the digits of n in base b, most significant first, w of them
RECURSIVE Digits(_, _, _)
Digits(n, b, w) ==
  IF w = 0 THEN <<>> ELSE Append(Digits(n \div b, b, w - 1), n % b)

HexLower == <<"0", "1", "2", "3", "4", "5", "6", "7", "8", "9", "a", "b", "c", "d", "e", "f">>
HexUpper == <<"0", "1", "2", "3", "4", "5", "6", "7", "8", "9", "A", "B", "C", "D", "E", "F">>

\* str(ps_guid).lower(): 32 hex digits in groups of 8, 4, 4, 4 and 12
GuidStr(g) ==
  LET d == Digits(g, 16, 32)
      h == [i \in 1..32 |-> HexLower[d[i] + 1]]
  IN  SubSeq(h, 1, 8) \o <<"-">> \o SubSeq(h, 9, 12) \o <<"-">>
        \o SubSeq(h, 13, 16) \o <<"-">> \o SubSeq(h, 17, 20) \o <<"-">>
        \o SubSeq(h, 21, 32)

\* the base64 alphabet of base64.b64encode
B64 == 
  <<"A", "B", "C", "D", "E", "F", "G", "H", "I", "J", "K", "L", "M", "N", "O", "P", "Q", "R", "S", "T", "U", "V", "W", "X", "Y", "Z", "a", "b", "c", "d", "e", "f",
   "g", "h", "i", "j", "k", "l", "m", "n", "o", "p", "q", "r", "s", "t", "u", "v", "w", "x", "y", "z", "0", "1", "2", "3", "4", "5", "6", "7", "8", "9", "+", "/">>
Pad == "="

\* variant: the payload is written as it is, a character per byte
b64encodeRaw(d) == [i \in 1..Len(d) |-> IF d[i] = 10 THEN NewLine ELSE Letter]
\* base64.b64encode(data): three bytes make four characters, the last group
\* is padded
RECURSIVE b64encode(_)
b64encode(d) ==
  LET n == Len(d)
      v == (IF n >= 1 THEN d[1] * 65536 ELSE 0) + (IF n >= 2 THEN d[2] * 256 ELSE 0)
             + (IF n >= 3 THEN d[3] ELSE 0)
      c1 == B64[(v \div 262144) + 1]
      c2 == B64[((v \div 4096) % 64) + 1]
      c3 == B64[((v \div 64) % 64) + 1]
      c4 == B64[(v % 64) + 1]
  IN  CASE n = 0 -> <<>>
        [] n = 1 -> <<c1, c2, Pad, Pad>>
        [] n = 2 -> <<c1, c2, c3, Pad>>
        [] OTHER -> <<c1, c2, c3, c4>> \o b64encode(SubSeq(d, 4, n))

\* element.encode() of the ack helpers
ElementChars(element) ==
  CASE element = "CloseAck" -> <<"C", "l", "o", "s", "e", "A", "c", "k">>
    [] element = "CommandAck" -> <<"C", "o", "m", "m", "a", "n", "d", "A", "c", "k">>
    [] element = "DataAck" -> <<"D", "a", "t", "a", "A", "c", "k">>
    [] element = "SignalAck" -> <<"S", "i", "g", "n", "a", "l", "A", "c", "k">>

StreamName(st) ==
  IF st = "default" THEN <<"D", "e", "f", "a", "u", "l", "t">> ELSE <<"P", "r", "o", "m", "p", "t", "R", "e", "s", "p", "o", "n", "s", "e">>

\* ps_data_packet(data, stream_type, ps_guid); ps_guid None is the all-zero
\* GUID
ps_data_packet(data, st, g) ==
  <<"<", "D", "a", "t", "a", " ", "S", "t", "r", "e", "a", "m", "=", "'">>
    \o StreamName(st)
    \o <<"'", " ", "P", "S", "G", "u", "i", "d", "=", "'">>
    \o GuidStr(g)
    \o <<"'", ">">>
    \o b64encode(data)
    \o <<"<", "/", "D", "a", "t", "a", ">", NewLine>>

\* ps_guid_packet(element, ps_guid)
ps_guid_packet(element, g) ==
  <<"<">> \o ElementChars(element)
    \o <<" ", "P", "S", "G", "u", "i", "d", "=", "'">>
    \o GuidStr(g)
    \o <<"'", " ", "/", ">", NewLine>>

\* OutOfProcTransport.data: ps_data_packet(*data) is what _write sends
DataPacket(data, st, g) ==
  /\ args = NoCall
  /\ args' = [fn |-> "ps_data_packet", data |-> data, stream_type |-> st, ps_guid |-> g]
  /\ ret' = ps_data_packet(data, st, g)
  /\ UNCHANGED <<prev, mainVars, framingVars>>

\* close_ack, command_ack, data_ack, signal_ack: ps_guid_packet(element,
\* pipeline_id) is what _write sends
GuidPacket(element, g) ==
  /\ args = NoCall
  /\ args' = [fn |-> "ps_guid_packet", element |-> element, ps_guid |-> g]
  /\ ret' = ps_guid_packet(element, g)
  /\ UNCHANGED <<prev, mainVars, framingVars>>

\* ---- get_pipe_name
MaxPid == 2                     \* process ids: 1..MaxPid
\* create times, as the timedelta since 1970-01-01 UTC: days (1970-01-01,
\* 2024-06-24, a day of the year 5255, 9999-12-30), seconds and microseconds
CreateTimes ==
  [days : {0, 19898, 1200000, 2932895}, seconds : {0, 86399},
   microseconds : {0, 999999}]
TzOffsets == {-18000, 0, 3600}  \* the local time zone, seconds east of UTC
ProcessNames == {"python3", "pwsh"}
NoEnv == ""                     \* TMPDIR is not set
TmpDirs == {NoEnv, "/var/tmp"}

\* a * k + c on digit sequences of base b (most significant digit first); the
\* width is kept, as struct.pack(">Q") keeps 64 bits
RECURSIVE Times(_, _, _, _)
Times(a, k, c, b) ==
  IF a = <<>> THEN <<>>
  ELSE LET n == Len(a)
           v == a[n] * k + c
       IN  Append(Times(SubSeq(a, 1, n - 1), k, v \div b, b), v % b)

\* x + y + c on digit sequences of base b and equal width
RECURSIVE Plus(_, _, _, _)
Plus(x, y, c, b) ==
  IF x = <<>> THEN <<>>
  ELSE LET n == Len(x)
           v == x[n] + y[n] + c
       IN  Append(Plus(SubSeq(x, 1, n - 1), SubSeq(y, 1, n - 1), v \div b, b), v % b)

\* the number written ds in base from, as w digits of base b
RECURSIVE Horner(_, _, _, _)
Horner(ds, from, b, w) ==
  IF ds = <<>> THEN [i \in 1..w |-> 0]
  ELSE Times(Horner(SubSeq(ds, 1, Len(ds) - 1), from, b, w), from, ds[Len(ds)], b)

\* 116444736000000000: the Unix epoch as a FILETIME
EpochDigits == <<1, 1, 6, 4, 4, 4, 7, 3, 6, 0, 0, 0, 0, 0, 0, 0, 0, 0>>
FileTimeEpoch == Horner(EpochDigits, 10, 16, 16)

\* a time moved by off seconds
Shift(t, off) ==
  LET sec == t.seconds + off
  IN  [days |-> t.days + (IF sec < 0 THEN -1 ELSE IF sec >= 86400 THEN 1 ELSE 0),
       seconds |-> (sec + 86400) % 86400,
       microseconds |-> t.microseconds]

\* fromtimestamp(create_time).astimezone(): the create time on the local clock
LocalTime(ct, tz) == Shift(ct, tz)

\* ct.astimezone(utc_tz) - datetime(1970, 1, 1, tzinfo=utc_tz)
TimeDelta(local, tz) == Shift(local, 0 - tz)

\* 116444736000000000 + (td.microseconds + (td.seconds + td.days * 24 * 3600)
\* * 10**6) * 10, as 64 bits
FileTime(td) ==
  LET secs == Times(Digits(td.days, 16, 16), 24 * 3600, td.seconds, 16)
      us == Times(secs, 1000000, td.microseconds, 16)
  IN  Plus(FileTimeEpoch, Times(us, 10, 0, 16), 0, 16)

\* base64.b16encode(struct.pack(">Q", start_time_ft)).decode()
Pack(ft) == [i \in 1..Len(ft) |-> HexUpper[ft[i] + 1]]

\* variant: the leading zeros stay
LStripNone(str) == str
\* str.lstrip("0")
RECURSIVE LStrip(_)
LStrip(str) ==
  IF str # <<>> /\ str[1] = "0" THEN LStrip(SubSeq(str, 2, Len(str))) ELSE str

\* str[i:j]
Slice(str, i, j) == SubSeq(str, i + 1, IF j < Len(str) THEN j ELSE Len(str))

\* str(n) of n >= 0
RECURSIVE Decimal(_)
Decimal(n) ==
  IF n < 10 THEN <<HexUpper[n + 1]>>
  ELSE Append(Decimal(n \div 10), HexUpper[(n % 10) + 1])

\* os.environ.get("TMPDIR", "/tmp")
TmpDir(env) == IF env = NoEnv THEN "/tmp" ELSE env

\* get_pipe_name on POSIX: the path, part by part
get_pipe_name(pid, ct, tz, name, env) ==
  LET td == TimeDelta(LocalTime(ct, tz), tz)
      start_time == Slice(LStrip(Pack(FileTime(td))), 1, 9)
  IN  <<TmpDir(env), "/", "CoreFxPipe_PSHost.", start_time, ".", Decimal(pid),
        ".None.", name>>

\* the arguments of a call of get_pipe_name: what the process and its
\* environment are
NameArgs(pid, ct, tz, name, env) ==
  [fn |-> "get_pipe_name", pid |-> pid, create_time |-> ct, tz |-> tz,
   process_name |-> name, TMPDIR |-> env]

\* the process, its create time, its name and TMPDIR are those of the call a
SameProcess(a, pid, ct, name, env) ==
  a.pid = pid /\ a.create_time = ct /\ a.process_name = name /\ a.TMPDIR = env

\* a call of get_pipe_name, and a second call for the same process
GetPipeName(pid, ct, tz, name, env) ==
  /\ \/ args = NoCall
     \/ /\ args.fn = "get_pipe_name" /\ prev[1] = NoCall
        /\ SameProcess(args, pid, ct, name, env)
  /\ prev' = <<args, ret>>
  /\ args' = NameArgs(pid, ct, tz, name, env)
  /\ ret' = get_pipe_name(pid, ct, tz, name, env)
  /\ UNCHANGED <<mainVars, framingVars>>

\* the functions keep no state: a behaviour is one call on arguments of choice
NextFunc ==
  \/ \E data \in Payloads, st \in StreamTypes, g \in Guids : DataPacket(data, st, g)
  \/ \E element \in AckElements, g \in Guids : GuidPacket(element, g)
  \/ \E pid \in 1..MaxPid, ct \in CreateTimes, tz \in TzOffsets,
        name \in ProcessNames, env \in TmpDirs : GetPipeName(pid, ct, tz, name, env)

SpecFunc == Init /\ [][NextFunc]_vars

\* --------------------------------------------------------------- the system
Writes == \E t \in Threads : WriteLock(t) \/ WriteSend(t)

Next ==
  \/ ReadLoop
  \/ Writes
  \/ RunspaceWorker
  \/ \E g \in Pipes : PipelineWorker(g)
  \/ \E g \in Pipes : Script(g)

Spec == Init /\ [][Next]_vars

\* ---- scheduling: a thread that can run does run, and a thread waiting for a
\* lock that is released again and again gets it; what the client sends and
\* what the script calls next are under no obligation
WriteSteps(t) == WriteLock(t) \/ WriteSend(t)

ReadLoopRuns ==
  \/ CloseJoin \/ RsCloseSend \/ RsClosePut \/ RsJoin
  \/ HandleError \/ ErrorSend
  \/ WriteSteps(R)

RunspaceWorkerRuns == RunspaceWorker \/ WriteSteps(RS)

PipelineWorkerRuns(g) == PipelineWorker(g) \/ WriteSteps(PW(g))

ScriptRuns(g) ==
  \/ (\E compiles \in BOOLEAN : SStart(g, compiles))
  \/ SDispatch(g) \/ SSend(g) \/ SFinish(g) \/ SIter(g)
  \/ SHostLock(g) \/ SHostWake(g) \/ SHostPred(g)
  \/ WriteSteps(SW(g))

FairSpec ==
  /\ Spec
  /\ SF_vars(ReadLoopRuns)
  /\ SF_vars(RunspaceWorkerRuns)
  /\ \A g \in Pipes : SF_vars(PipelineWorkerRuns(g))
  /\ \A g \in Pipes : SF_vars(ScriptRuns(g))

\* ------------------------------------------------------------------ claims
PacketKinds == {"Close", "Command", "Data", "Signal"}

\* the step on which the read loop takes a packet of kind tag and GUID g
PacketStep(tag, g) ==
  CASE tag = "Close" -> IF g = ZeroGuid THEN ProcessCloseZero ELSE ProcessClose(g)
    [] tag = "Command" -> ProcessCommand(g)
    [] tag = "Data" -> \E evs \in DataEvents(g) : ProcessData(g, evs)
    [] tag = "Signal" -> ProcessSignal(g)

\* the ack of a packet of kind tag and GUID g, waiting for the write lock
\* ("lock") or leaving the connection ("send")
AckOf(tag, g, phase) == [kind |-> AckKind(tag), guid |-> g, phase |-> phase]

\* the step on which _process returns for the packet pkt: the last write of
\* its handler leaves the connection
Returns == pkt # NoPkt /\ pkt' = NoPkt /\ rpc' = "read"

\* the read loop writes the matching ack last, and no ack before it
AckedOnReturn ==
  Returns =>
    /\ pkt.tag \in PacketKinds
    /\ wr[R] = AckOf(pkt.tag, pkt.guid, "send")
    /\ acks = <<>>

\* the read loop queues no ack but the one of the packet it is processing
OnlyOwnAck ==
  (wr'[R] # wr[R] /\ wr'[R].kind \notin {"none", "Data"} /\ wr'[R].phase = "lock") =>
    /\ pkt'.tag \in PacketKinds
    /\ wr'[R] = AckOf(pkt'.tag, pkt'.guid, "lock")

\* C1 (as stated): every Close, Command, Data or Signal packet the read loop
\* processes is answered by exactly one ack of the matching kind with the same
\* PSGuid, for pipeline GUIDs and the all-zero GUID alike, a Command with the
\* all-zero GUID excepted.  Read here in favour of the claim: a packet whose
\* processing raises is not counted.
C1AckEveryPacket ==
  [][/\ AckedOnReturn
     /\ OnlyOwnAck
     /\ \A tag \in PacketKinds, g \in Guids :
          (npk' # npk /\ rpc' = "read" /\ ~(tag = "Command" /\ g = ZeroGuid)
             /\ PacketStep(tag, g))
            => wr'[R] = AckOf(tag, g, "lock")]_vars

\* C1 (amended): every Close, Command, Data or Signal packet whose processing
\* returns without raising is answered by exactly one ack of the matching kind
\* with the same PSGuid, written before the next packet is read, except a
\* Command and a Signal with the all-zero GUID, for which nothing is written.
C1AckUnlessZeroCommandOrSignal ==
  [][/\ AckedOnReturn
     /\ OnlyOwnAck
     /\ \A tag \in PacketKinds, g \in Guids :
          (npk' # npk /\ rpc' = "read" /\ PacketStep(tag, g))
            => wr'[R] = IF g = ZeroGuid /\ tag \in {"Command", "Signal"}
                          THEN NoWrite ELSE AckOf(tag, g, "lock")]_vars

\* a Signal for a pipeline is being answered: SignalAck leaves the connection
C1Witness ==
  /\ pkt.tag = "Signal" /\ pkt.guid \in Pipes
  /\ wr[R] = AckOf("Signal", pkt.guid, "send")

\* C2: every Command packet with pipeline GUID g is answered by exactly one
\* CommandAck(g), also when g is already a key of the pipeline table, and g
\* stays a key of the table until a Close packet for g is processed.
C2CommandAcked ==
  [][/\ \A g \in Pipes :
          (npk' # npk /\ ProcessCommand(g)) => (wr'[R] = AckOf("Command", g, "lock") /\ g \in pipelines')
     /\ \A g \in Pipes :
          (g \in pipelines /\ g \notin pipelines') => ProcessClose(g)]_vars

\* C3: once Close with the all-zero GUID is processed (the runspace worker
\* joined, CloseAck(0) written), the read loop has ended: no later packet is
\* read.
C3LoopEndsAfterCloseZero ==
  [][closedZero => (rspc = "done" /\ npk' = npk)]_vars

\* positions of the read loop once processing a packet has raised or the
\* loop has ended
EndPcs == {"err", "err_sd", "stopped", "crashed"}

C6OneSender ==
  /\ Cardinality(Sending) <= 1
  /\ \A t \in Sending : wlock = t

\* one thread is inside send while two others are waiting for the lock
C6Witness ==
  \E t \in Threads, u \in Threads, v \in Threads :
    /\ u # v
    /\ wr[t].phase = "send" /\ wr[u].phase = "lock" /\ wr[v].phase = "lock"

\* C7: CommandAck(g) is written before any Data packet that the pipeline
\* worker or the script subthread of g writes.
C7CommandAckFirst ==
  \A g \in Pipes :
    (wr[PW(g)].phase = "send" \/ wr[SW(g)].phase = "send") => g \in cmdAcked

\* the script subthread of an acknowledged pipeline is writing a Data packet
C7Witness ==
  \E g \in Pipes : wr[SW(g)].phase = "send" /\ g \in cmdAcked

\* C8: CloseAck(g) is written only after the pipeline worker of g has
\* terminated, and CloseAck(0) only after the runspace worker has terminated.
C8CloseAckAfterJoin ==
  wr[R].kind = "CloseAck" =>
    IF wr[R].guid = ZeroGuid THEN rspc = "done" ELSE wpc[wr[R].guid] = "done"

\* CloseAck of a pipeline leaves the connection
C8Witness ==
  wr[R].kind = "CloseAck" /\ wr[R].guid \in Pipes /\ wr[R].phase = "send"

\* the newline-terminated lines of a byte string, without their newlines
RECURSIVE Lines(_)
Lines(bytes) ==
  IF ~HasNewLine(bytes) THEN <<>>
  ELSE <<SubSeq(bytes, 1, Index(bytes) - 1)>>
         \o Lines(SubSeq(bytes, Index(bytes) + 1, Len(bytes)))

IsPrefix(s, t) == Len(s) <= Len(t) /\ SubSeq(t, 1, Len(s)) = s

\* C5: however the inbound bytes are split into read chunks, the packets
\* handed to _process are the newline-terminated lines of the stream, in
\* order, each once and with exactly its own bytes.  Read here in favour of
\* the claim: at any moment the packets processed so far are the first lines
\* of the bytes read so far.
C5PacketsAreLines == IsPrefix(processed, Lines(stream))

\* the script thread of g is inside _send_data_with_response
InCall(g) == spc[g] \in {"h_lock", "h_pred", "hwait", "hwoken"}

\* the response of the call g is in is in the result map of g's host scope
Stored(g) == InCall(g) /\ hres[hscope[g]][sci[g]] # NoVal

\* the step on which _send_data_with_response ends
LeavesCall(g) == spc[g] = "h_pred" /\ spc'[g] \notin {"h_pred", "hwait"}

\* C9 (as stated): a host call blocks until the response for its call-id is in
\* the result map of its host scope, then removes the entry and returns
\* exactly the stored value; once the response is stored the call eventually
\* returns, also when it is stored before the thread waits.
C9ReturnsStoredValue ==
  /\ [][\A g \in Pipes :
          LeavesCall(g) =>
            /\ hres[hscope[g]][sci[g]] # NoVal
            /\ hres'[hscope[g]][sci[g]] = NoVal
            /\ spc'[g] = "run"]_vars
  /\ \A g \in Pipes : Stored(g) ~> ~InCall(g)

\* C9 (amended): a host call blocks until the response for its call-id is in
\* the result map of its host scope or its pipeline is no longer Running.
\* With a response there it removes the entry and returns the stored value,
\* unless that is an ErrorRecord: then the call raises, which ends the script
\* (error record written, pipeline Completed).  With none it exits the script
\* and the pipeline is Stopped.  Once the response is stored the call
\* eventually ends, also when it is stored before the thread waits.
C9ReturnsOrRaises ==
  /\ [][\A g \in Pipes :
          LeavesCall(g) =>
            IF hres[hscope[g]][sci[g]] # NoVal
              THEN /\ hres'[hscope[g]][sci[g]] = NoVal
                   /\ IF hres[hscope[g]][sci[g]] = "err"
                        THEN spc'[g] = "fin_sd" /\ pstate'[g] = "Completed"
                        ELSE spc'[g] = "run" /\ pstate'[g] = pstate[g]
              ELSE /\ pstate[g] # "Running"
                   /\ spc'[g] = "fin_sd" /\ pstate'[g] = "Stopped"]_vars
  /\ \A g \in Pipes : Stored(g) ~> ~InCall(g)

\* the response is stored while the script thread has not yet taken the
\* waiter lock; the response is stored while the thread waits
C9Witness ==
  \E g \in Pipes : Stored(g) /\ spc[g] = "h_lock"

\* C10: after a Close packet for a pipeline is processed, every script thread
\* of the pipeline that is blocked in the input iterator or in a host call, of
\* the pipeline scope or of the runspace scope, is eventually woken and
\* unwinds.
C10BlockedUnwinds ==
  \A g \in Pipes :
    (g \in used /\ g \notin pipelines /\ spc[g] \in {"hwait", "it_wait"})
      ~> (spc[g] \notin {"hwait", "it_wait", "hwoken", "it_woken"})

\* C11: a Signal for a Running pipeline (one the pipeline table holds) is
\* answered by SignalAck and makes the pipeline Stopping; the state stays
\* Stopping until the script thread acts; the script's next facade call raises the cooperative-termination
\* signal, by which the pipeline becomes Stopped; and CloseAck of the pipeline
\* is written only while its Close packet is processed.
C11SignalThenStopped ==
  [][\A g \in Pipes :
       /\ (npk' # npk /\ pstate[g] = "Running" /\ g \in pipelines /\ ProcessSignal(g)) =>
            (pstate'[g] = "Stopping" /\ wr'[R] = AckOf("Signal", g, "lock"))
       /\ (pstate[g] = "Stopping" /\ pstate'[g] # "Stopping") => spc'[g] # spc[g]
       /\ (pstate[g] = "Stopping" /\ SWrite(g)) =>
            (pstate'[g] = "Stopped" /\ spc'[g] = "fin_sd")
       /\ (wr'[R].kind = "CloseAck" /\ wr'[R].guid = g) =>
            (pkt'.tag = "Close" /\ pkt'.guid = g /\ g \notin pipelines')]_vars

\* a signalled pipeline that made no host call is Stopped and not yet closed,
\* and its script thread has ended
C11Witness ==
  \E g \in Pipes :
    /\ pstate[g] = "Stopped" /\ g \in pipelines
    /\ sci[g] = 0 /\ spc[g] = "done"

\* the input buffer holds the objects of the PipelineInput events in arrival
\* order, what the iterator has yielded is the buffer's beginning, and a
\* waiting iterator has yielded the whole buffer and, once input is complete,
\* has a notify_all coming
InputInOrder(g) ==
  /\ \A i \in 1..Len(pinput[g]) : pinput[g][i] = i
  /\ Len(yielded[g]) <= Len(pinput[g])
  /\ yielded[g] = SubSeq(pinput[g], 1, Len(yielded[g]))
  /\ spc[g] = "it_wait" =>
       /\ Len(yielded[g]) = Len(pinput[g])
       /\ pcomplete[g] => wpc[g] \in {"cond", "cond_end"}

\* C12: the input iterator yields the objects of the pipeline's PipelineInput
\* events in arrival order, each once and one per request; it waits only
\* while the buffer is used up and input is not complete; and it ends when,
\* asked for the next object, input is complete and the whole buffer has been
\* yielded, and only then.
C12IteratorYieldsInputs ==
  /\ [](\A g \in Pipes : InputInOrder(g))
  /\ [][\A g \in Pipes :
          /\ Len(yielded'[g]) <= Len(yielded[g]) + 1
          /\ (spc'[g] = "it_wait" /\ spc[g] # "it_wait") =>
               (sidx[g] = Len(pinput[g]) /\ ~pcomplete[g])
          /\ (sidx'[g] = Exhausted /\ sidx[g] # Exhausted) =>
               (pcomplete[g] /\ Len(yielded[g]) = Len(pinput[g]))
          /\ (spc[g] \in {"it_acq", "it_woken"} /\ spc'[g] # spc[g]
                /\ sidx[g] = Len(pinput[g]) /\ pcomplete[g]) =>
               sidx'[g] = Exhausted]_vars

\* two objects were yielded in order and the iterator has ended
C12Witness ==
  \E g \in Pipes : yielded[g] = <<1, 2>> /\ sidx[g] = Exhausted

\* ---- C13: the events of a Data packet and the worker queues
\* a step that processes a Data packet of GUID g whose events are evs
DataStep(g, evs) == npk' # npk /\ pkt'.tag = "Data" /\ ProcessData(g, evs)

\* evs are appended, in order and once, to the queue of scope g, and no other
\* queue changes
QueuedOn(g, evs) == evq' = [evq EXCEPT ![g] = @ \o evs]

\* C13 (as stated): every event next_event() returns while a Data packet is
\* processed is put on exactly one worker queue, the queue of the pipeline the
\* PSGuid names when it is non-zero and the runspace worker's otherwise
C13EveryEventQueued ==
  [][(npk' # npk /\ pkt'.tag = "Data") =>
       \A evs \in DataEvents(pkt'.guid) :
         DataStep(pkt'.guid, evs) => QueuedOn(pkt'.guid, evs)]_vars

\* C13 (amended): the events are put, once and in order, on the queue the
\* PSGuid names when the PSGuid is zero or a key of the pipeline table; when
\* it is a non-zero GUID that is no key, the first event raises KeyError and
\* no event is put on any queue
C13EventsQueuedForKnownGuid ==
  [][(npk' # npk /\ pkt'.tag = "Data") =>
       LET g == pkt'.guid IN
         \A evs \in DataEvents(g) :
           DataStep(g, evs) =>
             IF g = ZeroGuid \/ g \in pipelines
               THEN QueuedOn(g, evs)
               ELSE /\ evq' = evq
                    /\ evs # <<>> => rpc' = "err"]_vars

C13Witness ==
  /\ pkt.tag = "Data" /\ pkt.guid \in Pipes /\ pkt.guid \in pipelines
  /\ Len(evq[pkt.guid]) = 2 /\ evq[ZeroGuid] = <<>>

\* ---- C14: the order in which a worker handles the events of its scope
\* the objects of the PipelineInput events of a sequence of events, in order
RECURSIVE InputsOf(_)
InputsOf(q) ==
  IF q = <<>> THEN <<>>
  ELSE (IF Head(q).type = "Input" THEN <<Head(q).ci>> ELSE <<>>) \o InputsOf(Tail(q))

\* next_event() produced the PipelineInput events of g carrying 1, 2, ...:
\* the ones handled, the one in the worker's hands and the ones waiting are
\* in that order
InputsNumbered(g) ==
  LET all == pinput[g] \o InputsOf(<<wev[g]>>) \o InputsOf(evq[g])
  IN  \A i \in 1..Len(all) : all[i] = i

\* what the worker of scope s does first with the event e it took
Handles(s, e) ==
  /\ e.type = "HostResponse" => hres'[s][e.ci] = e.val
  /\ s = ZeroGuid =>
        rspc' = CASE e.type = "None" -> "notify_end"
                  [] e.type = "HostResponse" -> "notify"
                  [] OTHER -> "sd"
  /\ s \in Pipes =>
        /\ e.type = "Input" => wev'[s] = e
        /\ e.type = "End" => (pcomplete'[s] /\ wpc'[s] = "cond")
        /\ e.type = "Create" => (spc'[s] = "start" /\ pcomplete'[s] = e.noInput)
        /\ e.type = "None" => (pcomplete'[s] /\ wpc'[s] = "cond_end")

\* C14: within one scope the worker handles the events in the order
\* next_event() produced them, across Data packets: events join the queue of
\* their scope at its end, the worker takes one event at a time, the one that
\* waited longest, and finishes with it before it takes the next
C14HandledInOrder ==
  /\ [](\A g \in Pipes : InputsNumbered(g))
  /\ [][\A s \in Guids :
          /\ Len(evq'[s]) > Len(evq[s]) => IsPrefix(evq[s], evq'[s])
          /\ Len(evq'[s]) = Len(evq[s]) => evq'[s] = evq[s]
          /\ Len(evq'[s]) < Len(evq[s]) =>
                /\ evq'[s] = Tail(evq[s])
                /\ Handles(s, Head(evq[s]))
                /\ IF s = ZeroGuid THEN rspc = "get" ELSE wpc[s] = "get"]_vars

C14Witness ==
  \E g \in Pipes :
    /\ pinput[g] = <<1>>
    /\ evq[g] = <<Ev("Input", 2, "", FALSE), Ev("End", 0, "", FALSE)>>

\* ---- C15: packets that name a pipeline the table does not hold
\* C15: a Close, Signal or Data packet whose non-zero PSGuid is no key of the
\* pipeline table raises in _process: no ack is written for it and the
\* read loop goes to its `except Exception` handler
C15UnknownPipelineIsError ==
  [][\A g \in Pipes :
       (/\ npk' # npk
        /\ pkt'.tag \in {"Close", "Signal", "Data"}
        /\ pkt'.guid = g
        /\ g \notin pipelines)
         => (rpc' = "err" /\ wr'[R] = NoWrite)]_vars

\* ---- C16: packets _process cannot decode
\* C16: a packet without a PSGuid attribute, with a PSGuid that is no GUID, or
\* with a tag that is none of Close, Command, Data, Signal (nor an ack) makes
\* _process raise: no ack is written, and neither the pipeline table nor a
\* worker changes.  (A ProcessOther step leaves the same state as a Command or
\* a Signal with the all-zero GUID: all three return from _process silently.)
C16UndecodableFails ==
  [][(ProcessMalformed \/ \E g \in Guids : ProcessOther(g)) =>
       /\ rpc' = "err"
       /\ wr'[R] = NoWrite
       /\ UNCHANGED <<pipelines, workerVars, scriptVars>>]_vars

\* ---- C17: the pipeline table and the pipeline workers
\* the worker thread of g was started and has not terminated
Live(g) == wpc[g] \notin {"none", "done"}

\* the read loop is in _process_close for g, past pipelines.pop and before
\* pipeline.join() has returned
Closing(g) == rpc = "close_join" /\ pkt.guid = g

C18ZeroGuidNoKey == ZeroGuid \notin pipelines

\* every packet was read, a pipeline is in the table, and the last packet
\* returned without a write
C18Witness ==
  /\ npk = MaxPackets /\ rpc = "read" /\ pkt = NoPkt /\ Idle(R)
  /\ pipelines # {} /\ ZeroGuid \notin pipelines

\* ---- C19: the packets the server writes
\* the position of the first c in p
First(p, c) == CHOOSE i \in 1..Len(p) : p[i] = c /\ \A j \in 1..(i - 1) : p[j] # c

\* the text of the element p: what lies between the end of its start tag and
\* the start of its end tag
Text(p) ==
  LET rest == SubSeq(p, First(p, ">") + 1, Len(p))
  IN  SubSeq(rest, 1, First(rest, "<") - 1)

B64Value(c) == CHOOSE i \in 0..63 : B64[i + 1] = c

\* the bytes a base64 text stands for (RFC 4648): four characters carry three
\* bytes, a padded group two or one
RECURSIVE B64Bytes(_)
B64Bytes(t) ==
  IF Len(t) < 4 THEN <<>>
  ELSE LET v == B64Value(t[1]) * 262144 + B64Value(t[2]) * 4096
                  + (IF t[3] = Pad THEN 0 ELSE B64Value(t[3]) * 64)
                  + (IF t[4] = Pad THEN 0 ELSE B64Value(t[4]))
           b == <<v \div 65536, (v \div 256) % 256, v % 256>>
       IN  SubSeq(b, 1, IF t[3] = Pad THEN 1 ELSE IF t[4] = Pad THEN 2 ELSE 3)
             \o B64Bytes(SubSeq(t, 5, Len(t)))

\* t is the canonical base64 text of the bytes d
IsBase64Of(t, d) ==
  /\ Len(t) = 4 * ((Len(d) + 2) \div 3)
  /\ \A i \in 1..Len(t) :
       \/ \E k \in 1..64 : B64[k] = t[i]
       \/ t[i] = Pad /\ i > Len(t) - 2 /\ (i < Len(t) => t[Len(t)] = Pad)
  /\ B64Bytes(t) = d
  /\ Len(d) % 3 = 1 => B64Value(t[Len(t) - 2]) % 16 = 0
  /\ Len(d) % 3 = 2 => B64Value(t[Len(t) - 1]) % 4 = 0

OneLineFeedAtEnd(p) ==
  /\ p # <<>>
  /\ p[Len(p)] = NewLine
  /\ \A i \in 1..(Len(p) - 1) : p[i] # NewLine

\* C19: a packet the server writes ends with a line feed and holds no other
\* line feed, and the text of a Data packet is the base64 encoding of the
\* payload bytes
C19PacketsOneLineBase64 ==
  /\ args.fn \in {"ps_data_packet", "ps_guid_packet"} => OneLineFeedAtEnd(ret)
  /\ args.fn = "ps_data_packet" => IsBase64Of(Text(ret), args.data)

C19Witness ==
  /\ args.fn = "ps_data_packet"
  /\ args.data = <<10, 255, 0, 10>>
  /\ Text(ret) = <<"C", "v", "8", "A", "C", "g", "=", "=">>

\* ---- C20: the start_time part of the pipe name
\* the FILETIME of the create time ct, in decimal: 116444736000000000 plus ten
\* times the microseconds since the Unix epoch (twenty decimal digits)
FileTimeDecimal(ct) ==
  LET secs == Times(Digits(ct.days, 10, 20), 86400, ct.seconds, 10)
      us == Times(secs, 1000000, ct.microseconds, 10)
      ten == SubSeq(us, 2, 20) \o <<0>>
  IN  Plus(<<0, 0>> \o EpochDigits, ten, 0, 10)

\* the leading zeros of a digit sequence
LeadingZeros(ds) ==
  Cardinality({i \in 1..Len(ds) : \A j \in 1..i : ds[j] = 0})

\* the characters at the zero-based positions 1 to 8 of the upper-case hex
\* rendering, without its leading zeros, of the FILETIME of ct
ExpectedStartTime(ct) ==
  LET hex == Horner(FileTimeDecimal(ct), 10, 16, 16)
      z == LeadingZeros(hex)
  IN  [i \in 1..8 |-> HexUpper[hex[z + 1 + i] + 1]]

\* C20: on POSIX the start_time of the pipe name is the characters 1 to 8
\* (zero-based) of the 16-digit upper-case hex rendering of the FILETIME
\* without its leading zeros, the FILETIME being 116444736000000000 + 10 x
\* the microseconds of the create time since the Unix epoch; and a second call
\* for the same pid, create time, process name and TMPDIR returns the same path
C20StartTimeOfFileTime ==
  args.fn = "get_pipe_name" =>
    /\ ret[4] = ExpectedStartTime(args.create_time)
    /\ (prev[1] # NoCall
        /\ SameProcess(prev[1], args.pid, args.create_time, args.process_name,
                       args.TMPDIR))
         => ret = prev[2]

C20Witness ==
  /\ args.fn = "get_pipe_name"
  /\ args.create_time = [days |-> 19898, seconds |-> 86399, microseconds |-> 999999]
  /\ ret[4] = <<"D", "A", "C", "6", "9", "2", "9", "F">>
  /\ prev[1] # NoCall /\ prev[1].tz # args.tz

\* ---- C21: the cmdlet facade and a pipeline that is Stopping
\* C21: the facade does not dispatch write_output, write_error or a host
\* write_line to the codec while the pipeline state is Stopping, however the
\* script thread and the read loop's begin_stop() interleave
C21NoDispatchWhileStopping ==
  [][\A g \in Pipes :
       (spc[g] = "o_disp" /\ SDispatch(g)) => pstate[g] # "Stopping"]_vars

\* ---- C22: what becomes of the payloads data_to_send() returns
\* C22: a payload a thread takes from data_to_send() (the pool has output
\* pending and the step takes it) is handed to the transport: the thread goes
\* on to write it as a Data packet
C22PayloadsAreWritten ==
  [][(pending /\ ~pending') =>
       \E t \in Threads : wr[t] = NoWrite /\ wr'[t] = Req("Data", ZeroGuid)]_vars

\* ---- C23: how _exec ends a pipeline
\* the positions of the script thread once _exec has ended the pipeline
Ended == {"fin_sd", "fin", "done"}

\* the step on which _exec ends the pipeline of g
Ends(g) == spc[g] \notin Ended /\ spc'[g] \in Ended

\* _exec ends the pipeline once, in the way that belongs to how the script
\* left: Failed for a script that does not compile, Stopped for SystemExit,
\* Completed for a return and for any other exception; the pool state and the
\* read loop are not touched
EndsOneWay(g) ==
  /\ Ends(g) =>
        /\ spc'[g] = "fin_sd" /\ pending'
        /\ pstate'[g] \in
              (IF spc[g] = "start" THEN {"Failed"}
               ELSE IF spc[g] = "h_pred"
                 THEN (IF Stored(g) THEN {"Completed"} ELSE {"Stopped"})
               ELSE IF pstate[g] = "Stopping" THEN {"Stopped", "Completed"}
               ELSE {"Completed"})
        /\ poolState' = poolState /\ rpc' = rpc
  /\ spc[g] \in Ended => spc'[g] \in Ended

\* the output pending once the pipeline has ended is not lost before the
\* final _send_data(): whoever takes it writes it
EndIsSent(g) ==
  (spc[g] = "fin_sd" /\ pending /\ ~pending') =>
    \E t \in Threads : wr[t] = NoWrite /\ wr'[t] = Req("Data", ZeroGuid)

\* C23: the script executor ends the pipeline in exactly one way per run, and
\* on every path the pending codec output is sent once afterwards, the pool
\* state is unchanged and the read loop keeps running
C23EndsOneWayAndSends ==
  [][\A g \in Pipes : EndsOneWay(g) /\ EndIsSent(g)]_vars

\* ---- C24: the order of the Data packets on the connection
\* C24: Data packets are written in the order in which their payloads were
\* taken from data_to_send(): the thread that enters _write with a payload is
\* the one that took its payload first among those not yet written
C24DataWrittenInOrderTaken ==
  [][\A t \in Threads :
       (wr[t].kind = "Data" /\ wlock = NoThread /\ wlock' = t) => Head(taken) = t]_vars

\* ---- C25: the pipeline worker and the input-buffer condition
\* the worker of g has taken a PipelineInput, an EndOfPipelineInput or the
\* sentinel and is about to enter `with add_condition:`
AtCondition(g) == wpc[g] \in {"cond_in", "cond", "cond_end"}

\* C25: a pipeline worker that has taken a PipelineInput, EndOfPipelineInput
\* or sentinel event does not wait for ever for the input-buffer condition
\* lock while the script thread, suspended in the input iterator, is in a
\* host call: the worker finishes with the event (or the host call ends, and
\* the script is free to go on to its next request for input).  The host call
\* is pipeline-scoped: its response comes through this worker's queue
C25WorkerFinishesEvent ==
  \A g \in Pipes :
    (AtCondition(g) /\ iterHeld[g] /\ InCall(g) /\ hscope[g] = g)
      ~> (~AtCondition(g) \/ ~InCall(g))

\* ---- C26: no Data from a pipeline's threads after its CloseAck
\* CloseAck(g) has been written: g had its Command, _process_close has popped
\* it, joined its worker and finished the write of the ack (a closed GUID is
\* not used again)
CloseAckWritten(g) ==
  /\ g \in used /\ g \notin pipelines
  /\ ~Closing(g)
  /\ ~(wr[R].kind = "CloseAck" /\ wr[R].guid = g)

\* the threads of pipeline g: its worker and its script subthread
ThreadsOf(g) == {PW(g), SW(g)}

\* C26: once CloseAck(P) has been written, no thread of P (its worker, its
\* script subthread) writes a Data packet: no conn.send of a Data packet by
\* such a thread returns in a state where the ack is out
C26NoDataAfterCloseAck ==
  [][\A g \in Pipes : \A t \in ThreadsOf(g) :
       (CloseAckWritten(g) /\ wr[t].kind = "Data" /\ wr[t].phase = "send")
         => wr'[t] = wr[t]]_vars

\* ---- C27: the workers end when the read loop ends
\* run has left its `while True`: by `break` or by the re-raised exception
LoopEnded == rpc \in {"stopped", "crashed"}

\* a worker blocked in event_queue.get() on an empty queue
RunspaceWaits  == rspc = "get" /\ evq[ZeroGuid] = <<>>
PipelineWaits(g) == wpc[g] = "get" /\ evq[g] = <<>>

\* C27: when the read loop has ended, the runspace worker and every pipeline
\* worker terminate.  Only the read loop puts events and sentinels on the
\* workers' queues, so a worker that waits on an empty queue once the loop has
\* ended waits forever: no such state is reached
C27NoWorkerLeftWaiting ==
  LoopEnded => (~RunspaceWaits /\ \A g \in Pipes : ~PipelineWaits(g))
====
